---- MODULE Spec2Model ----
(***************************************************************************)
(* Model of selfcheckgpt/modeling_mqag.py: the three MQAG scoring methods, *)
(* question_generation_sentence_level and SelfCheckMQAG.predict.           *)
(*                                                                         *)
(* Numbers are exact rationals <<n, d>> in lowest terms with d > 0; the    *)
(* pair <<0, 0>> is the value of 0/0 (numpy's nan) and is absorbing for    *)
(* every arithmetic operator below.  Texts are sequences of tokens.        *)
(***************************************************************************)
EXTENDS Integers, Sequences, FiniteSets, TLC

VARIABLES
    \* ---- predict: arguments
    sentences, passage, sampled_passages, num_questions_per_sent,
    scoring_method, kwargs,
    \* ---- predict: locals
    pc, error, num_samples, sent_scores, sidx, sentence, questions, scores,
    qidx, question, options, prob, u_score, prob_s, u_score_s, si,
    \* ---- question_generation_sentence_level: locals
    q_, num_valid_questions, gq, ganswer,
    \* ---- calls issued to the four inference services
    g_calls, a_calls, u_calls,
    \* ---- direct calls of the scoring methods
    m_args, m_call, m_prev

predict_vars == <<sentences, passage, sampled_passages, num_questions_per_sent,
                  scoring_method, kwargs, pc, error, num_samples, sent_scores,
                  sidx, sentence, questions, scores, qidx, question, options, prob,
                  u_score, prob_s, u_score_s, si, q_, num_valid_questions, gq,
                  ganswer, g_calls, a_calls, u_calls>>

method_vars == <<m_args, m_call, m_prev>>

vars == <<predict_vars, method_vars>>

(***************************************************************************)
(* Bounds of the model.                                                    *)
(***************************************************************************)
MaxSent == 2
MaxSamples == 2
MaxQ == 2
MaxWork == 6

(***************************************************************************)
(* Exact rational arithmetic.                                              *)
(***************************************************************************)
Abs(x) == IF x < 0 THEN -x ELSE x

RECURSIVE GCD(_, _)
GCD(a, b) == IF b = 0 THEN a ELSE GCD(b, a % b)

NaN == <<0, 0>>

Norm(n, d) ==
    IF d = 0 THEN NaN
    ELSE LET s == IF d < 0 THEN -1 ELSE 1
             g == GCD(Abs(n), Abs(d))
         IN  <<(s * n) \div g, (s * d) \div g>>

R(n, d) == Norm(n, d)
Zero == R(0, 1)
One == R(1, 1)
Half == R(1, 2)

IsNaN(a) == a[2] = 0
RAdd(a, b) == Norm(a[1] * b[2] + b[1] * a[2], a[2] * b[2])
RSub(a, b) == Norm(a[1] * b[2] - b[1] * a[2], a[2] * b[2])
RMul(a, b) == Norm(a[1] * b[1], a[2] * b[2])
RDiv(a, b) == Norm(a[1] * b[2], a[2] * b[1])
RLt(a, b) == ~IsNaN(a) /\ ~IsNaN(b) /\ a[1] * b[2] < b[1] * a[2]
RLe(a, b) == ~IsNaN(a) /\ ~IsNaN(b) /\ a[1] * b[2] <= b[1] * a[2]
RGe(a, b) == RLe(b, a)

\* the d-th root of a natural number that is a perfect d-th power
IRoot(x, d) == CHOOSE k \in 0..x : k ^ d = x

\* g ** c for a positive rational g and a non-negative rational exponent c;
\* exact on the inputs of the model, whose roots are rational
RPow(g, c) ==
    LET r == <<IRoot(g[1], c[2]), IRoot(g[2], c[2])>>
    IN  Norm(r[1] ^ c[1], r[2] ^ c[1])

RECURSIVE RSum(_)
RSum(s) == IF s = <<>> THEN Zero ELSE RAdd(s[1], RSum(Tail(s)))

\* np.mean: the sum over the count, 0/0 for an empty list
Mean(s) == RDiv(RSum(s), R(Len(s), 1))

\* np.argmax: the first index holding the maximum
ArgMax(v) ==
    CHOOSE i \in DOMAIN v :
        /\ \A j \in DOMAIN v : v[j] <= v[i]
        /\ \A j \in DOMAIN v : j < i => v[j] < v[i]

(***************************************************************************)
(* The scoring methods.  prob and prob_s_[s] are answer distributions in    *)
(* tenths; only their argmax is used.                                      *)
(***************************************************************************)
RECURSIVE CountingLoop(_, _, _, _, _, _)
\* lines 28-33: <<count_good_sample, count_match>> after samples s..num_samples_
CountingLoop(a_DT, prob_s_, u_score_s_, s, num_samples_, AT) ==
    IF s > num_samples_ THEN <<0, 0>>
    ELSE LET rest == CountingLoop(a_DT, prob_s_, u_score_s_, s + 1, num_samples_, AT)
         IN  IF RGe(u_score_s_[s], AT)
             THEN <<rest[1] + 1,
                    rest[2] + (IF a_DT = ArgMax(prob_s_[s]) THEN 1 ELSE 0)>>
             ELSE rest

method_simple_counting_mut(prob_, u_score_, prob_s_, u_score_s_, num_samples_, AT) ==
    IF RLt(u_score_, AT) THEN Half
    ELSE LET c == CountingLoop(ArgMax(prob_), prob_s_, u_score_s_, 1, num_samples_, AT)
         IN  IF c[1] = 0 THEN Half
             ELSE R(c[2], c[1])

method_simple_counting(prob_, u_score_, prob_s_, u_score_s_, num_samples_, AT) ==
    IF RLt(u_score_, AT) THEN Half
    ELSE LET a_DT == ArgMax(prob_)
             c == CountingLoop(a_DT, prob_s_, u_score_s_, 1, num_samples_, AT)
             count_good_sample == c[1]
             count_match == c[2]
         IN  IF count_good_sample = 0 THEN Half
             ELSE R(count_good_sample - count_match, count_good_sample)

RECURSIVE BayesLoop(_, _, _, _, _, _)
\* lines 56-62: <<count_match, count_mismatch>>
BayesLoop(a_DT, prob_s_, u_score_s_, s, num_samples_, AT) ==
    IF s > num_samples_ THEN <<0, 0>>
    ELSE LET rest == BayesLoop(a_DT, prob_s_, u_score_s_, s + 1, num_samples_, AT)
         IN  IF RGe(u_score_s_[s], AT)
             THEN IF a_DT = ArgMax(prob_s_[s])
                  THEN <<rest[1] + 1, rest[2]>>
                  ELSE <<rest[1], rest[2] + 1>>
             ELSE rest

\* lines 63-65 and 89-91
BayesScore(count_match, count_mismatch, beta1, beta2) ==
    LET gamma1 == RDiv(beta2, RSub(One, beta1))
        gamma2 == RDiv(beta1, RSub(One, beta2))
    IN  RDiv(RPow(gamma2, count_mismatch),
             RAdd(RPow(gamma1, count_match), RPow(gamma2, count_mismatch)))

RECURSIVE BayesLoopAll(_, _, _, _)
\* a loop that puts a sample below the threshold in the mismatch bucket
BayesLoopAll(a_DT, prob_s_, s, num_samples_) ==
    IF s > num_samples_ THEN <<0, 0>>
    ELSE LET rest == BayesLoopAll(a_DT, prob_s_, s + 1, num_samples_)
         IN  IF a_DT = ArgMax(prob_s_[s])
             THEN <<rest[1] + 1, rest[2]>>
             ELSE <<rest[1], rest[2] + 1>>

method_vanilla_bayes_mut(prob_, u_score_, prob_s_, u_score_s_, num_samples_, beta1, beta2, AT) ==
    IF RLt(u_score_, AT) THEN Half
    ELSE LET c == BayesLoopAll(ArgMax(prob_), prob_s_, 1, num_samples_)
         IN  BayesScore(R(c[1], 1), R(c[2], 1), beta1, beta2)

method_vanilla_bayes(prob_, u_score_, prob_s_, u_score_s_, num_samples_, beta1, beta2, AT) ==
    IF RLt(u_score_, AT) THEN Half
    ELSE LET a_DT == ArgMax(prob_)
             c == BayesLoop(a_DT, prob_s_, u_score_s_, 1, num_samples_, AT)
         IN  BayesScore(R(c[1], 1), R(c[2], 1), beta1, beta2)

RECURSIVE AlphaLoop(_, _, _, _, _)
\* lines 82-88: the soft counts <<count_match, count_mismatch>>
AlphaLoop(a_DT, prob_s_, u_score_s_, s, num_samples_) ==
    IF s > num_samples_ THEN <<Zero, Zero>>
    ELSE LET rest == AlphaLoop(a_DT, prob_s_, u_score_s_, s + 1, num_samples_)
             ans_score == u_score_s_[s]
         IN  IF a_DT = ArgMax(prob_s_[s])
             THEN <<RAdd(rest[1], ans_score), rest[2]>>
             ELSE <<rest[1], RAdd(rest[2], ans_score)>>

method_bayes_with_alpha_mut(prob_, u_score_, prob_s_, u_score_s_, num_samples_, beta1, beta2) ==
    LET c == AlphaLoop(ArgMax(prob_), prob_s_, u_score_s_, 1, num_samples_)
    IN  BayesScore(c[2], c[1], beta1, beta2)

method_bayes_with_alpha(prob_, u_score_, prob_s_, u_score_s_, num_samples_, beta1, beta2) ==
    LET a_DT == ArgMax(prob_)
        c == AlphaLoop(a_DT, prob_s_, u_score_s_, 1, num_samples_)
    IN  BayesScore(c[1], c[2], beta1, beta2)

(***************************************************************************)
(* Values the services and the caller can supply.                          *)
(***************************************************************************)
\* an answer distribution over n options whose mass sits on option k
Dist(n, k) == [i \in 1..n |-> IF i = k THEN 7 ELSE 1]

\* softmax outputs of the answerer for n options (line 181)
ProbPool(n) == {Dist(n, 1), Dist(n, 2)}

\* a distribution whose two largest entries tie
TieDist == <<4, 4, 1, 1>>

\* sigmoid outputs of the answerability classifier (line 200)
UPool == {Zero, Half, One}

ATPool == {Half}

\* <<beta1, beta2>> inside (0,1); gamma1 and gamma2 are squares of rationals
BetaPool == {<<R(4, 5), R(4, 5)>>, <<R(1, 5), R(1, 5)>>, <<R(1, 2), R(1, 2)>>,
             <<R(27, 35), R(32, 35)>>, <<R(3, 35), R(8, 35)>>}

SeqsUpTo(S, n) == UNION {[1..k -> S] : k \in 0..n}

(***************************************************************************)
(* Direct calls of the scoring methods: arguments are drawn, a method is   *)
(* called, one sample is changed or added, and the method is called again. *)
(***************************************************************************)
NoCall == [method |-> "none", args |-> <<>>, score |-> NaN]

MethodArgs ==
    {[prob |-> p, u_score |-> u, prob_s |-> ps, u_score_s |-> us,
      num_samples |-> Len(ps), beta1 |-> b[1], beta2 |-> b[2], AT |-> at] :
        p \in ProbPool(4) \cup {TieDist}, u \in UPool, b \in BetaPool, at \in ATPool,
        ps \in SeqsUpTo(ProbPool(4), MaxSamples),
        us \in SeqsUpTo(UPool, MaxSamples)}

\* the arguments a with the answerability of one sample changed, or with
\* one more sample
Perturbed(a) ==
    {b \in {[a EXCEPT !.u_score_s[s] = u] : s \in 1..a.num_samples, u \in UPool} : b # a}
    \cup
    {[a EXCEPT !.prob_s = Append(a.prob_s, p), !.u_score_s = Append(a.u_score_s, u),
               !.num_samples = a.num_samples + 1] :
        p \in {q \in ProbPool(4) : a.num_samples < MaxSamples}, u \in UPool}

MayCall(m) == m_call = NoCall \/ (m_prev = NoCall /\ m_call.method = m /\ m_call.args # m_args)

InitMethods ==
    /\ m_args \in {a \in MethodArgs : Len(a.prob_s) = Len(a.u_score_s)}
    /\ m_call = NoCall
    /\ m_prev = NoCall

CallCounting ==
    /\ MayCall("counting")
    /\ m_call' = [method |-> "counting", args |-> m_args,
                  score |-> method_simple_counting(m_args.prob, m_args.u_score,
                                m_args.prob_s, m_args.u_score_s, m_args.num_samples,
                                m_args.AT)]
    /\ m_prev' = m_call
    /\ UNCHANGED <<m_args, predict_vars>>

CallBayes ==
    /\ MayCall("bayes")
    /\ m_call' = [method |-> "bayes", args |-> m_args,
                  score |-> method_vanilla_bayes(m_args.prob, m_args.u_score,
                                m_args.prob_s, m_args.u_score_s, m_args.num_samples,
                                m_args.beta1, m_args.beta2, m_args.AT)]
    /\ m_prev' = m_call
    /\ UNCHANGED <<m_args, predict_vars>>

CallBayesWithAlpha ==
    /\ MayCall("bayes_with_alpha")
    /\ m_call' = [method |-> "bayes_with_alpha", args |-> m_args,
                  score |-> method_bayes_with_alpha(m_args.prob, m_args.u_score,
                                m_args.prob_s, m_args.u_score_s, m_args.num_samples,
                                m_args.beta1, m_args.beta2)]
    /\ m_prev' = m_call
    /\ UNCHANGED <<m_args, predict_vars>>

NewArgs ==
    /\ m_call # NoCall
    /\ m_prev = NoCall
    /\ m_call.args = m_args
    /\ m_args' \in Perturbed(m_args)
    /\ UNCHANGED <<m_call, m_prev, predict_vars>>

(***************************************************************************)
(* Texts.  A decoded model output is a sequence of tokens; a sentence or a *)
(* passage is named by a number (the passage 0, sampled passage s by s).   *)
(***************************************************************************)
PAD == "<pad>"
EOS == "</s>"
SEP == "<sep>"
EXTRA == "<extra_id_0>"
SPACE == " "

\* str.replace(tok, "")
Remove(s, tok) == SelectSeq(s, LAMBDA x : x # tok)

\* re.sub("<extra\S+>", sep_token, s), line 148
SubExtra(s) == [i \in DOMAIN s |-> IF s[i] = EXTRA THEN SEP ELSE s[i]]

RECURSIVE Split(_, _)
\* str.split(sep): one more segment than there are separators
Split(s, sep) ==
    IF s = <<>> THEN << <<>> >>
    ELSE LET r == Split(Tail(s), sep)
         IN  IF Head(s) = sep THEN << <<>> >> \o r
             ELSE << <<Head(s)>> \o Head(r) >> \o Tail(r)

RECURSIVE LStrip(_)
LStrip(s) == IF s # <<>> /\ Head(s) = SPACE THEN LStrip(Tail(s)) ELSE s

RECURSIVE RStrip(_)
RStrip(s) ==
    IF s # <<>> /\ s[Len(s)] = SPACE THEN RStrip(SubSeq(s, 1, Len(s) - 1)) ELSE s

\* str.strip()
Strip(s) == RStrip(LStrip(s))

\* decoded outputs of the question+answer generator (lines 116-121)
G1Outputs ==
    { <<PAD, "q1", SPACE, SEP, SPACE, "a1", EOS>>,
      <<"q2", SEP, "a2", EOS>>,
      <<"q1", EOS>>,
      <<"q1", SEP, "a1", SEP, "a2">> }

\* decoded outputs of the distractor generator (lines 141-146)
G2Outputs ==
    { <<PAD, "d1", EOS>>,
      <<"d1", EXTRA, SPACE, "d2", SEP, "d3", EOS>>,
      <<"d1", SEP, "d2", SEP, "d3", SEP, "d4">> }

\* sigmoid outputs of the answerability classifier inside predict
UPredict == {Zero, Half}

\* every method parameter predict can be given
KwFull == [AT |-> Half, beta1 |-> R(4, 5), beta2 |-> R(4, 5)]

Restrict(f, K) == [k \in K |-> f[k]]

ScoringMethods_mut == {"counting", "bayes", "bayes_with_alpha", "mean"}

\* line 254
ScoringMethods == {"counting", "bayes", "bayes_with_alpha"}

\* the keyword arguments read at lines 298, 300 and 302
Required(m) ==
    CASE m = "counting" -> {"AT"}
      [] m = "bayes" -> {"beta1", "beta2", "AT"}
      [] m = "bayes_with_alpha" -> {"beta1", "beta2"}
      [] OTHER -> {}

ValidSplit_mut(split) == Len(split) >= 2

\* line 124
ValidSplit(split) == Len(split) = 2

RECURSIVE PadOptions(_)
\* lines 152-154
PadOptions(opts) ==
    IF Len(opts) < 4 THEN PadOptions(Append(opts, opts[Len(opts)])) ELSE opts

\* np.zeros((n, 4)) and np.zeros((n,))
ZerosMatrix(n) == [s \in 1..n |-> <<0, 0, 0, 0>>]
ZerosVector(n) == [s \in 1..n |-> Zero]

(***************************************************************************)
(* predict                                                                 *)
(***************************************************************************)
Init ==
    /\ sentences \in {[i \in 1..k |-> i] : k \in 0..MaxSent}
    /\ passage = 0
    /\ sampled_passages \in {[s \in 1..k |-> s] : k \in 0..MaxSamples}
    /\ num_questions_per_sent \in 0..MaxQ
    /\ Len(sentences) * num_questions_per_sent * (1 + Len(sampled_passages)) <= MaxWork
    /\ scoring_method \in ScoringMethods \cup {"mean"}
    /\ kwargs \in {Restrict(KwFull, K) : K \in SUBSET (DOMAIN KwFull)}
    /\ pc = "start"
    /\ error = "none"
    /\ num_samples = 0
    /\ sent_scores = <<>>
    /\ sidx = 0
    /\ sentence = 0
    /\ questions = <<>>
    /\ scores = <<>>
    /\ qidx = 0
    /\ question = <<>>
    /\ options = <<>>
    /\ prob = <<>>
    /\ u_score = Zero
    /\ prob_s = <<>>
    /\ u_score_s = <<>>
    /\ si = 0
    /\ q_ = 0
    /\ num_valid_questions = 0
    /\ gq = <<>>
    /\ ganswer = <<>>
    /\ g_calls = <<>>
    /\ a_calls = <<>>
    /\ u_calls = <<>>
    /\ m_args = <<>>
    /\ m_call = NoCall
    /\ m_prev = NoCall

\* lines 254-256
PredictEnter ==
    /\ pc = "start"
    /\ IF scoring_method \in ScoringMethods
       THEN /\ pc' = "for_sentence"
            /\ error' = error
       ELSE /\ pc' = "failed"
            /\ error' = "AssertionError"
    /\ num_samples' = (IF scoring_method \in ScoringMethods
                       THEN Len(sampled_passages) ELSE num_samples)
    /\ UNCHANGED <<sentences, passage, sampled_passages, num_questions_per_sent,
                   scoring_method, kwargs, sent_scores, sidx, sentence, questions,
                   scores, qidx, question, options, prob, u_score, prob_s,
                   u_score_s, si, q_, num_valid_questions, gq, ganswer, g_calls,
                   a_calls, u_calls, method_vars>>

\* line 257 taking the next sentence, and the entry of
\* question_generation_sentence_level (lines 260-263, 112-113)
ForSentence ==
    /\ pc = "for_sentence"
    /\ sidx < Len(sentences)
    /\ sidx' = sidx + 1
    /\ sentence' = sentences[sidx + 1]
    /\ num_valid_questions' = 0
    /\ questions' = <<>>
    /\ q_' = 0
    /\ g_calls' = <<>>
    /\ pc' = "gen_loop"
    /\ UNCHANGED <<sentences, passage, sampled_passages, num_questions_per_sent,
                   scoring_method, kwargs, error, num_samples, sent_scores, scores,
                   qidx, question, options, prob, u_score, prob_s, u_score_s, si,
                   gq, ganswer, a_calls, u_calls, method_vars>>

\* lines 114-130: one attempt of stage G.1
G1Generate ==
    /\ pc = "gen_loop"
    /\ q_ < num_questions_per_sent
    /\ \E out \in G1Outputs :
        LET question_answer == Remove(Remove(out, PAD), EOS)
            question_answer_split == Split(question_answer, SEP)
        IN  /\ g_calls' = Append(g_calls, [svc |-> "g1", context |-> sentence,
                                            question |-> <<>>, answer |-> <<>>,
                                            out |-> out])
            /\ IF ValidSplit(question_answer_split)
               THEN /\ num_valid_questions' = num_valid_questions + 1
                    /\ gq' = Strip(question_answer_split[1])
                    /\ ganswer' = Strip(question_answer_split[2])
                    /\ q_' = q_
                    /\ pc' = "gen_g2"
               ELSE /\ q_' = q_ + 1
                    /\ UNCHANGED <<num_valid_questions, gq, ganswer, pc>>
    /\ UNCHANGED <<sentences, passage, sampled_passages, num_questions_per_sent,
                   scoring_method, kwargs, error, num_samples, sent_scores, sidx,
                   sentence, questions, scores, qidx, question, options, prob,
                   u_score, prob_s, u_score_s, si, a_calls, u_calls, method_vars>>

\* lines 132-160: stage G.2 of the attempt
G2Generate ==
    /\ pc = "gen_g2"
    /\ \E out \in G2Outputs :
        LET d1 == Remove(Remove(out, PAD), EOS)
            d2 == SubExtra(d1)
            sp == Split(d2, SEP)
            distractors == [i \in DOMAIN sp |-> Strip(sp[i])]
            opts == PadOptions(<<ganswer>> \o distractors)
        IN  /\ g_calls' = Append(g_calls, [svc |-> "g2", context |-> passage,
                                            question |-> gq, answer |-> ganswer,
                                            out |-> out])
            /\ questions' = Append(questions, [question |-> gq, options |-> opts])
    /\ q_' = q_ + 1
    /\ pc' = "gen_loop"
    /\ UNCHANGED <<sentences, passage, sampled_passages, num_questions_per_sent,
                   scoring_method, kwargs, error, num_samples, sent_scores, sidx,
                   sentence, scores, qidx, question, options, prob, u_score,
                   prob_s, u_score_s, si, num_valid_questions, gq, ganswer,
                   a_calls, u_calls, method_vars>>

\* line 161 returning to lines 266-267
GenReturn ==
    /\ pc = "gen_loop"
    /\ q_ >= num_questions_per_sent
    /\ scores' = <<>>
    /\ qidx' = 0
    /\ pc' = "for_question"
    /\ UNCHANGED <<sentences, passage, sampled_passages, num_questions_per_sent,
                   scoring_method, kwargs, error, num_samples, sent_scores, sidx,
                   sentence, questions, question, options, prob, u_score, prob_s,
                   u_score_s, si, q_, num_valid_questions, gq, ganswer, g_calls,
                   a_calls, u_calls, method_vars>>

\* lines 268-275: the next QuestionItem answered on the passage
AnswerTrue ==
    /\ pc = "for_question"
    /\ qidx < Len(questions)
    /\ qidx' = qidx + 1
    /\ question' = questions[qidx + 1].question
    /\ options' = questions[qidx + 1].options
    /\ \E p \in ProbPool(Len(questions[qidx + 1].options)) :
        /\ prob' = p
        /\ a_calls' = << [question |-> question', options |-> options',
                          context |-> passage, ret |-> p] >>
    /\ u_calls' = <<>>
    /\ pc' = "u_true"
    /\ UNCHANGED <<sentences, passage, sampled_passages, num_questions_per_sent,
                   scoring_method, kwargs, error, num_samples, sent_scores, sidx,
                   sentence, questions, scores, u_score, prob_s, u_score_s, si,
                   q_, num_valid_questions, gq, ganswer, g_calls, method_vars>>

\* lines 277-283
AnswerabilityTrue ==
    /\ pc = "u_true"
    /\ \E u \in UPredict :
        /\ u_score' = u
        /\ u_calls' = << [question |-> question, context |-> passage, ret |-> u] >>
    /\ prob_s' = ZerosMatrix(num_samples)
    /\ u_score_s' = ZerosVector(num_samples)
    /\ si' = 0
    /\ pc' = "for_sample"
    /\ UNCHANGED <<sentences, passage, sampled_passages, num_questions_per_sent,
                   scoring_method, kwargs, error, num_samples, sent_scores, sidx,
                   sentence, questions, scores, qidx, question, options, prob,
                   q_, num_valid_questions, gq, ganswer, g_calls, a_calls,
                   method_vars>>

\* a loop body that stores the answer for sample si at the mirrored index
AnswerSample_mut ==
    /\ pc = "for_sample"
    /\ si < Len(sampled_passages)
    /\ \E p \in ProbPool(Len(options)) :
        /\ a_calls' = Append(a_calls, [question |-> question, options |-> options,
                                       context |-> sampled_passages[si + 1],
                                       ret |-> p])
        /\ IF Len(p) = 4
           THEN /\ prob_s' = [prob_s EXCEPT ![num_samples - si] = p]
                /\ pc' = "u_sample"
                /\ error' = error
           ELSE /\ prob_s' = prob_s
                /\ pc' = "failed"
                /\ error' = "ValueError"
    /\ UNCHANGED <<sentences, passage, sampled_passages, num_questions_per_sent,
                   scoring_method, kwargs, num_samples, sent_scores, sidx,
                   sentence, questions, scores, qidx, question, options, prob,
                   u_score, u_score_s, si, q_, num_valid_questions, gq, ganswer,
                   g_calls, u_calls, method_vars>>

\* lines 284-290: the QuestionItem answered on sampled passage si; a
\* distribution over more than 4 options does not fit the row of prob_s
AnswerSample ==
    /\ pc = "for_sample"
    /\ si < Len(sampled_passages)
    /\ \E p \in ProbPool(Len(options)) :
        /\ a_calls' = Append(a_calls, [question |-> question, options |-> options,
                                       context |-> sampled_passages[si + 1],
                                       ret |-> p])
        /\ IF Len(p) = 4
           THEN /\ prob_s' = [prob_s EXCEPT ![si + 1] = p]
                /\ pc' = "u_sample"
                /\ error' = error
           ELSE /\ prob_s' = prob_s
                /\ pc' = "failed"
                /\ error' = "ValueError"
    /\ UNCHANGED <<sentences, passage, sampled_passages, num_questions_per_sent,
                   scoring_method, kwargs, num_samples, sent_scores, sidx,
                   sentence, questions, scores, qidx, question, options, prob,
                   u_score, u_score_s, si, q_, num_valid_questions, gq, ganswer,
                   g_calls, u_calls, method_vars>>

\* lines 291-294
AnswerabilitySample ==
    /\ pc = "u_sample"
    /\ \E u \in UPredict :
        /\ u_score_s' = [u_score_s EXCEPT ![si + 1] = u]
        /\ u_calls' = Append(u_calls, [question |-> question,
                                       context |-> sampled_passages[si + 1],
                                       ret |-> u])
    /\ si' = si + 1
    /\ pc' = "for_sample"
    /\ UNCHANGED <<sentences, passage, sampled_passages, num_questions_per_sent,
                   scoring_method, kwargs, error, num_samples, sent_scores, sidx,
                   sentence, questions, scores, qidx, question, options, prob,
                   u_score, prob_s, q_, num_valid_questions, gq, ganswer, g_calls,
                   a_calls, method_vars>>

\* the call made at line 298, 300 or 302
MethodScore ==
    CASE scoring_method = "counting" ->
            method_simple_counting(prob, u_score, prob_s, u_score_s, num_samples,
                                   kwargs["AT"])
      [] scoring_method = "bayes" ->
            method_vanilla_bayes(prob, u_score, prob_s, u_score_s, num_samples,
                                 kwargs["beta1"], kwargs["beta2"], kwargs["AT"])
      [] scoring_method = "bayes_with_alpha" ->
            method_bayes_with_alpha(prob, u_score, prob_s, u_score_s, num_samples,
                                    kwargs["beta1"], kwargs["beta2"])

\* a comparison step that scores 0.5 when a method parameter is missing
Compare_mut ==
    /\ pc = "for_sample"
    /\ si >= Len(sampled_passages)
    /\ IF ~(Required(scoring_method) \subseteq DOMAIN kwargs)
       THEN /\ scores' = Append(scores, Half)
            /\ pc' = "for_question"
            /\ error' = error
       ELSE IF scoring_method \notin {"counting", "bayes", "bayes_with_alpha"}
       THEN /\ pc' = "failed"
            /\ error' = "UnboundLocalError"
            /\ scores' = scores
       ELSE /\ scores' = Append(scores, MethodScore)
            /\ pc' = "for_question"
            /\ error' = error
    /\ UNCHANGED <<sentences, passage, sampled_passages, num_questions_per_sent,
                   scoring_method, kwargs, num_samples, sent_scores, sidx,
                   sentence, questions, qidx, question, options, prob, u_score,
                   prob_s, u_score_s, si, q_, num_valid_questions, gq, ganswer,
                   g_calls, a_calls, u_calls, method_vars>>

\* lines 296-303: a missing keyword argument raises KeyError when it is read;
\* with no branch taken, score is unbound at line 303
Compare ==
    /\ pc = "for_sample"
    /\ si >= Len(sampled_passages)
    /\ IF ~(Required(scoring_method) \subseteq DOMAIN kwargs)
       THEN /\ pc' = "failed"
            /\ error' = "KeyError"
            /\ scores' = scores
       ELSE IF scoring_method \notin {"counting", "bayes", "bayes_with_alpha"}
       THEN /\ pc' = "failed"
            /\ error' = "UnboundLocalError"
            /\ scores' = scores
       ELSE /\ scores' = Append(scores, MethodScore)
            /\ pc' = "for_question"
            /\ error' = error
    /\ UNCHANGED <<sentences, passage, sampled_passages, num_questions_per_sent,
                   scoring_method, kwargs, num_samples, sent_scores, sidx,
                   sentence, questions, qidx, question, options, prob, u_score,
                   prob_s, u_score_s, si, q_, num_valid_questions, gq, ganswer,
                   g_calls, a_calls, u_calls, method_vars>>

\* a sentence step that appends a score only when there is one to average
SentenceDone_mut ==
    /\ pc = "for_question"
    /\ qidx >= Len(questions)
    /\ sent_scores' = (IF scores = <<>> THEN sent_scores
                       ELSE Append(sent_scores, Mean(scores)))
    /\ pc' = "for_sentence"
    /\ UNCHANGED <<sentences, passage, sampled_passages, num_questions_per_sent,
                   scoring_method, kwargs, error, num_samples, sidx, sentence,
                   questions, scores, qidx, question, options, prob, u_score,
                   prob_s, u_score_s, si, q_, num_valid_questions, gq, ganswer,
                   g_calls, a_calls, u_calls, method_vars>>

\* lines 304-305
SentenceDone ==
    /\ pc = "for_question"
    /\ qidx >= Len(questions)
    /\ sent_scores' = Append(sent_scores, Mean(scores))
    /\ pc' = "for_sentence"
    /\ UNCHANGED <<sentences, passage, sampled_passages, num_questions_per_sent,
                   scoring_method, kwargs, error, num_samples, sidx, sentence,
                   questions, scores, qidx, question, options, prob, u_score,
                   prob_s, u_score_s, si, q_, num_valid_questions, gq, ganswer,
                   g_calls, a_calls, u_calls, method_vars>>

\* line 307
PredictReturn ==
    /\ pc = "for_sentence"
    /\ sidx >= Len(sentences)
    /\ pc' = "done"
    /\ UNCHANGED <<sentences, passage, sampled_passages, num_questions_per_sent,
                   scoring_method, kwargs, error, num_samples, sent_scores, sidx,
                   sentence, questions, scores, qidx, question, options, prob,
                   u_score, prob_s, u_score_s, si, q_, num_valid_questions, gq,
                   ganswer, g_calls, a_calls, u_calls, method_vars>>

Next ==
    \/ PredictEnter
    \/ ForSentence
    \/ G1Generate
    \/ G2Generate
    \/ GenReturn
    \/ AnswerTrue
    \/ AnswerabilityTrue
    \/ AnswerSample
    \/ AnswerabilitySample
    \/ Compare
    \/ SentenceDone
    \/ PredictReturn

Spec == Init /\ [][Next]_vars

(***************************************************************************)
(* The scoring methods called on their own.                                *)
(***************************************************************************)
InitScore ==
    /\ InitMethods
    /\ sentences = <<>>
    /\ passage = 0
    /\ sampled_passages = <<>>
    /\ num_questions_per_sent = 0
    /\ scoring_method = "counting"
    /\ kwargs = KwFull
    /\ pc = "idle"
    /\ error = "none"
    /\ num_samples = 0
    /\ sent_scores = <<>>
    /\ sidx = 0
    /\ sentence = 0
    /\ questions = <<>>
    /\ scores = <<>>
    /\ qidx = 0
    /\ question = <<>>
    /\ options = <<>>
    /\ prob = <<>>
    /\ u_score = Zero
    /\ prob_s = <<>>
    /\ u_score_s = <<>>
    /\ si = 0
    /\ q_ = 0
    /\ num_valid_questions = 0
    /\ gq = <<>>
    /\ ganswer = <<>>
    /\ g_calls = <<>>
    /\ a_calls = <<>>
    /\ u_calls = <<>>

NextScore ==
    \/ CallCounting
    \/ CallBayes
    \/ CallBayesWithAlpha
    \/ NewArgs

SpecScore == InitScore /\ [][NextScore]_vars

(***************************************************************************)
(* Properties of the scoring methods (checked under SpecScore).            *)
(***************************************************************************)
\* samples whose answerability reaches the threshold
Answerable(a) == {s \in 1..a.num_samples : RLe(a.AT, a.u_score_s[s])}

\* samples whose chosen option is the one chosen on the passage
Matching(a) == {s \in 1..a.num_samples : ArgMax(a.prob_s[s]) = ArgMax(a.prob)}

\* g to the n-th power, n a natural number
RPowNat(g, n) == Norm(g[1] ^ n, g[2] ^ n)

\* the summed answerability of the matching (flag) or mismatching samples
SoftWeight(a, flag) ==
    RSum([s \in 1..a.num_samples |->
            IF (s \in Matching(a)) = flag THEN a.u_score_s[s] ELSE Zero])

\* C2: counting returns 0.5 when u_score < AT or no sample is answerable, and
\* otherwise (good_sample - match) / good_sample over the answerable samples;
\* so it is 0 when all of them match, 1 when none does, and lies in [0,1].
C2_Counting ==
    m_call.method = "counting" =>
        LET a == m_call.args
            good == Answerable(a)
            match == good \cap Matching(a)
        IN  /\ RLt(a.u_score, a.AT) => m_call.score = Half
            /\ (~RLt(a.u_score, a.AT) /\ good = {}) => m_call.score = Half
            /\ (~RLt(a.u_score, a.AT) /\ good # {}) =>
                   /\ m_call.score = R(Cardinality(good) - Cardinality(match),
                                       Cardinality(good))
                   /\ match = good => m_call.score = Zero
                   /\ match = {} => m_call.score = One
            /\ RLe(Zero, m_call.score) /\ RLe(m_call.score, One)

C2_Witness ==
    /\ m_call.method = "counting"
    /\ ~RLt(m_call.args.u_score, m_call.args.AT)
    /\ Cardinality(Answerable(m_call.args)) = 1
    /\ m_call.args.num_samples = 2
    /\ Answerable(m_call.args) \cap Matching(m_call.args) = {}
    /\ Matching(m_call.args) # {}
    /\ m_call.score = One

\* C3: bayes returns exactly 0.5 when u_score < AT; otherwise
\* gamma2^mismatch / (gamma1^match + gamma2^mismatch) with unit counts over the
\* answerable samples only, which is 0.5 when no sample is answerable.
C3_Bayes ==
    m_call.method = "bayes" =>
        LET a == m_call.args
            good == Answerable(a)
            match == Cardinality(good \cap Matching(a))
            mismatch == Cardinality(good \ Matching(a))
            gamma1 == RDiv(a.beta2, RSub(One, a.beta1))
            gamma2 == RDiv(a.beta1, RSub(One, a.beta2))
        IN  /\ match + mismatch = Cardinality(good)
            /\ RLt(a.u_score, a.AT) => m_call.score = Half
            /\ ~RLt(a.u_score, a.AT) =>
                   m_call.score = RDiv(RPowNat(gamma2, mismatch),
                                       RAdd(RPowNat(gamma1, match),
                                            RPowNat(gamma2, mismatch)))
            /\ (~RLt(a.u_score, a.AT) /\ good = {}) => m_call.score = Half

C3_Witness ==
    /\ m_call.method = "bayes"
    /\ ~RLt(m_call.args.u_score, m_call.args.AT)
    /\ m_call.args.num_samples = 2
    /\ Cardinality(Answerable(m_call.args)) = 1
    /\ Matching(m_call.args) = {}
    /\ m_call.args.beta1 = R(27, 35)
    /\ m_call.score = R(9, 10)

\* two consecutive calls of bayes_with_alpha
AlphaPair == m_prev.method = "bayes_with_alpha" /\ m_call.method = "bayes_with_alpha"

\* between the two calls: the score does not fall when only the mismatch
\* weight grows, and does not rise when only the match weight grows
AlphaMonotone ==
    LET p == m_prev.args
        c == m_call.args
    IN  /\ (SoftWeight(p, TRUE) = SoftWeight(c, TRUE)
            /\ RLe(SoftWeight(p, FALSE), SoftWeight(c, FALSE)))
               => RLe(m_prev.score, m_call.score)
        /\ (SoftWeight(p, FALSE) = SoftWeight(c, FALSE)
            /\ RLe(SoftWeight(p, TRUE), SoftWeight(c, TRUE)))
               => RLe(m_call.score, m_prev.score)

\* C4 as claimed: bayes_with_alpha is monotone in its soft counts for all
\* beta1, beta2 in (0,1).
C4_Claimed == AlphaPair => AlphaMonotone

\* C4 amended: bayes_with_alpha is non-decreasing in the mismatch weight and
\* non-increasing in the match weight when beta1 + beta2 >= 1.
C4_Amended ==
    (AlphaPair /\ RLe(One, RAdd(m_call.args.beta1, m_call.args.beta2)))
        => AlphaMonotone

C4_Witness ==
    /\ AlphaPair
    /\ RLt(One, RAdd(m_call.args.beta1, m_call.args.beta2))
    /\ SoftWeight(m_prev.args, TRUE) = SoftWeight(m_call.args, TRUE)
    /\ RLt(Zero, SoftWeight(m_call.args, TRUE))
    /\ RLt(SoftWeight(m_prev.args, FALSE), SoftWeight(m_call.args, FALSE))
    /\ SoftWeight(m_prev.args, FALSE) = Half
    /\ SoftWeight(m_call.args, FALSE) = One
    /\ RLt(m_prev.score, m_call.score)

(***************************************************************************)
(* Properties of predict and of the question generator (checked under      *)
(* Spec).                                                                  *)
(***************************************************************************)
\* a sentence has just been scored: its score is the last of sent_scores
SentenceScored == pc \in {"for_sentence", "done"} /\ sidx > 0 /\ Len(sent_scores) >= sidx

\* C1: a sentence for which the generator yields no QuestionItem is scored
\* the neutral 0.5, never an undefined value.
C1_NeutralWhenNoQuestions ==
    (SentenceScored /\ questions = <<>>) =>
        (sent_scores[sidx] = Half /\ ~IsNaN(sent_scores[sidx]))

\* every score returned so far stays where it is
KeepsScores ==
    \A i \in DOMAIN sent_scores :
        i \in DOMAIN sent_scores' /\ sent_scores'[i] = sent_scores[i]

\* the score just appended belongs to sentence sidx alone
ScoredFromOwnSentence ==
    /\ (pc = "for_sentence" \/ pc = "done") => Len(sent_scores) = sidx
    /\ pc = "done" => Len(sent_scores) = Len(sentences)
    /\ SentenceScored =>
          /\ sentence = sentences[sidx]
          /\ \A k \in DOMAIN g_calls :
                g_calls[k].svc = "g1" => g_calls[k].context = sentences[sidx]
          /\ Len(scores) = Len(questions)
          /\ sent_scores[sidx] = Mean(scores)

\* C5: a returning predict call yields exactly len(sentences) scores, the i-th
\* computed from the i-th sentence alone, in order.
C5_LengthAndOrder == [](ScoredFromOwnSentence) /\ [][KeepsScores]_vars

C5_Witness ==
    /\ pc = "done"
    /\ Len(sentences) = 2
    /\ Len(sent_scores) = 2
    /\ IsNaN(sent_scores[1])
    /\ sent_scores[2] = One

\* C6: every QuestionItem has exactly 4 options, the generated answer first,
\* whatever number of distractors the distractor output decodes into.
C6_FourOptions ==
    \A k \in DOMAIN questions : Len(questions[k].options) = 4

\* a method parameter the chosen scoring method reads is missing
LacksParam ==
    \/ scoring_method = "counting" /\ "AT" \notin DOMAIN kwargs
    \/ scoring_method = "bayes" /\ ~({"AT", "beta1", "beta2"} \subseteq DOMAIN kwargs)
    \/ scoring_method = "bayes_with_alpha" /\ ~({"beta1", "beta2"} \subseteq DOMAIN kwargs)

\* C7 as claimed: every predict call lacking a required method parameter ends
\* in a fatal failure and returns no scores.
C7_Claimed == LacksParam => pc # "done"

\* C7 amended: such a call fails with KeyError at the first application of the
\* scoring method, after the first QuestionItem's 1 + N answering and
\* answerability calls, and no score is ever produced; it returns only when
\* no QuestionItem was generated for any sentence.
C7_Amended ==
    LacksParam =>
        /\ scores = <<>>
        /\ pc = "for_question" => qidx = 0
        /\ SentenceScored => questions = <<>>
        /\ pc = "failed" =>
              \/ error = "ValueError"
              \/ /\ error = "KeyError"
                 /\ qidx = 1
                 /\ si = Len(sampled_passages)
                 /\ Len(a_calls) = 1 + Len(sampled_passages)
                 /\ Len(u_calls) = 1 + Len(sampled_passages)

C7_Witness ==
    /\ LacksParam
    /\ pc = "failed"
    /\ error = "KeyError"
    /\ scoring_method = "bayes"
    /\ DOMAIN kwargs = {"AT", "beta1"}
    /\ Len(sampled_passages) = 2
    /\ sidx = 2

\* C8: with a scoring_method outside the three names predict fails before any
\* service call is issued or any score is produced.
C8_InvalidMethodFailsFirst ==
    scoring_method \notin {"counting", "bayes", "bayes_with_alpha"} =>
        /\ pc \in {"start", "failed"}
        /\ pc = "failed" => error = "AssertionError"
        /\ g_calls = <<>> /\ a_calls = <<>> /\ u_calls = <<>>
        /\ scores = <<>> /\ sent_scores = <<>>

C8_Witness ==
    /\ scoring_method = "mean"
    /\ pc = "failed"
    /\ error = "AssertionError"
    /\ Len(sentences) = 2
    /\ num_questions_per_sent = 2
    /\ DOMAIN kwargs = {"AT", "beta1", "beta2"}

\* C9: when a QuestionItem is scored, exactly 1 + N answerer calls and 1 + N
\* answerability calls were issued for it: the passage first, then the sampled
\* passages in index order, results stored at the sample's index, and every
\* answerer call with the same question and options.
C9_CallsPerQuestion ==
    /\ pc = "u_true" =>
          Len(scores) = qidx - 1 /\ Len(a_calls) = 1 /\ Len(u_calls) = 0
    /\ pc \in {"for_sample", "u_sample"} =>
          /\ Len(scores) = qidx - 1
          /\ Len(a_calls) = 1 + si + (IF pc = "u_sample" THEN 1 ELSE 0)
          /\ Len(u_calls) = 1 + si
    /\ pc = "for_question" => Len(scores) = qidx
    /\ (pc = "for_sample" /\ si >= Len(sampled_passages)) =>
          LET N == Len(sampled_passages)
          IN  /\ Len(a_calls) = 1 + N
              /\ Len(u_calls) = 1 + N
              /\ a_calls[1].context = passage /\ a_calls[1].ret = prob
              /\ u_calls[1].context = passage /\ u_calls[1].ret = u_score
              /\ Len(prob_s) = N /\ Len(u_score_s) = N
              /\ \A s \in 1..N :
                    /\ a_calls[1 + s].context = sampled_passages[s]
                    /\ a_calls[1 + s].ret = prob_s[s]
                    /\ u_calls[1 + s].context = sampled_passages[s]
                    /\ u_calls[1 + s].ret = u_score_s[s]
              /\ \A k \in 1..(1 + N) :
                    /\ a_calls[k].question = questions[qidx].question
                    /\ a_calls[k].options = questions[qidx].options
                    /\ u_calls[k].question = questions[qidx].question

C9_Witness ==
    /\ pc = "for_sample"
    /\ si = 2
    /\ Len(sampled_passages) = 2
    /\ qidx = 2
    /\ prob_s[1] # prob_s[2]
    /\ u_score_s[1] # u_score_s[2]
    /\ Len(a_calls) = 3

\* the calls of one service in the current generator invocation
CallsOf(svc) == SelectSeq(g_calls, LAMBDA c : c.svc = svc)

\* an output with exactly one separator: a (question, answer) pair
WellFormed(c) == Cardinality({i \in DOMAIN c.out : c.out[i] = SEP}) = 1

\* the words before (part 1) or after (part 2) the separator of a well-formed output
PartOf(out, part) ==
    LET pos == CHOOSE i \in DOMAIN out : out[i] = SEP
        raw == IF part = 1 THEN SubSeq(out, 1, pos - 1)
               ELSE SubSeq(out, pos + 1, Len(out))
    IN  SelectSeq(raw, LAMBDA x : x \notin {PAD, EOS, SPACE})

\* C10: the generator makes exactly num_questions_per_sent attempts; a
\* malformed attempt raises nothing, triggers no distractor call and adds no
\* QuestionItem; the result holds one item per well-formed attempt, in order.
C10_Attempts ==
    LET g1s == CallsOf("g1")
        g2s == CallsOf("g2")
        valid == SelectSeq(g1s, WellFormed)
        returning == (pc = "gen_loop" /\ q_ >= num_questions_per_sent)
                        \/ pc = "for_question"
    IN  /\ pc \in {"gen_loop", "gen_g2"} => error = "none"
        /\ pc \in {"gen_loop", "gen_g2"} =>
              Len(g1s) = q_ + (IF pc = "gen_g2" THEN 1 ELSE 0)
        /\ returning => Len(g1s) = num_questions_per_sent
        /\ Len(g2s) = Len(questions)
        /\ Len(valid) = Len(questions) + (IF pc = "gen_g2" THEN 1 ELSE 0)
        /\ \A i \in DOMAIN g_calls :
              g_calls[i].svc = "g2" =>
                  i > 1 /\ g_calls[i - 1].svc = "g1" /\ WellFormed(g_calls[i - 1])
        /\ \A k \in DOMAIN questions :
              /\ questions[k].question = PartOf(valid[k].out, 1)
              /\ questions[k].options[1] = PartOf(valid[k].out, 2)
              /\ g2s[k].question = questions[k].question
              /\ g2s[k].answer = questions[k].options[1]
              /\ g2s[k].context = passage

C10_Witness ==
    /\ pc = "gen_loop"
    /\ q_ = 2
    /\ num_questions_per_sent = 2
    /\ Len(g_calls) = 3
    /\ ~WellFormed(g_calls[1])
    /\ Len(questions) = 1
    /\ questions[1].question = <<"q1">>

====
